---------------------------- MODULE Spec2Model ----------------------------
(***************************************************************************)
(* Model of the ICRQE backend: extraction of code artifacts from Python    *)
(* files (repo_parser.py), batched upsert of the persisted rows into the   *)
(* vector store (main.py) and question answering (qa_system.py).           *)
(***************************************************************************)
EXTENDS Integers, Sequences, FiniteSets, TLC

(***************************************************************************)
(* Bounds of the model.                                                    *)
(***************************************************************************)
MaxNodes == 3          \* declarations per file in the parser specification
MaxRepoNodes == 2      \* declarations of a whole repository in the pipeline specification
MaxRuns == 2           \* indexing runs per behaviour
MaxBatchSize == 2      \* largest batch_size argument tried

(***************************************************************************)
(* Python values.                                                          *)
(***************************************************************************)
None == "None"

\* truth value of a string-or-None value
Truthy(x) == x # None /\ x # ""

(***************************************************************************)
(* A parsed file.  The declarations of a file are kept in source order     *)
(* (the order of their first lines); node i starts on line i, `up' is the  *)
(* index of the AST node whose body holds it (0 is the ast.Module), `body' *)
(* stands for the text of its own statements and `doc' for its docstring.  *)
(***************************************************************************)
Kinds == {"ClassDef", "FunctionDef", "AsyncFunctionDef"}

Names == {"A", "foo", "bar"}

\* no declaration of the file makes a call of the loop body raise
NoRaise == [node |-> 0, stage |-> "none"]

\* a file of the working tree: "ok" parses to ast, "bad" raises in open or
\* ast.parse, "absent" is not in the tree
MkFile(s, a) == [status |-> s, ast |-> a, raises |-> NoRaise]

\* a file that parses to ast and in which the text of declaration i makes
\* ast.unparse raise (stage "unparse") or embedding_model.encode raise
\* (stage "encode")
MkRaising(a, i, stage) ==
  [status |-> "ok", ast |-> a, raises |-> [node |-> i, stage |-> stage]]

MkNode(k, n, u, b, d) == [kind |-> k, name |-> n, up |-> u, body |-> b, doc |-> d]

\* node i and the nodes that enclose it, up to the ast.Module
RECURSIVE Ancestors(_, _)
Ancestors(ast, i) ==
  IF i = 0 \/ ast[i].up >= i THEN {i}
  ELSE {i} \cup Ancestors(ast, ast[i].up)

\* the file whose i-th declaration has kind k[i] and name nm[i] and stands
\* in the body of node u[i]
AstOf(n, k, nm, u) == [ i \in 1..n |-> MkNode(k[i], nm[i], u[i], 0, "") ]

\* a declaration stands in the body of the one before it, of one that
\* encloses the one before it, or at module level
WellNested(ast) ==
  /\ \A i \in 1..Len(ast) : ast[i].up < i
  /\ \A i \in 2..Len(ast) : ast[i].up \in Ancestors(ast, i - 1)

\* node.lineno
lineno(ast, i) == i

RECURSIVE LastInSubtree(_, _, _)
LastInSubtree(ast, i, j) ==
  IF j < Len(ast) /\ i \in Ancestors(ast, j + 1)
  THEN LastInSubtree(ast, i, j + 1) ELSE j

\* node.end_lineno
end_lineno(ast, i) == LastInSubtree(ast, i, i)

\* ast.iter_child_nodes: the statements of the node's body, in order
RECURSIVE ChildrenFrom(_, _, _)
ChildrenFrom(ast, p, i) ==
  IF i > Len(ast) THEN <<>>
  ELSE (IF ast[i].up = p THEN <<i>> ELSE <<>>) \o ChildrenFrom(ast, p, i + 1)

iter_child_nodes(ast, p) == ChildrenFrom(ast, p, 1)

\* ast.walk: todo = deque([node]); popleft, extend with the children, yield
RECURSIVE WalkTodo(_, _)
WalkTodo(ast, todo) ==
  IF todo = <<>> THEN <<>>
  ELSE <<Head(todo)>> \o
       WalkTodo(ast, Tail(todo) \o iter_child_nodes(ast, Head(todo)))

walk(ast) == WalkTodo(ast, <<0>>)

\* ast.unparse(node) / ast.get_source_segment(code, node): the text of the
\* declaration, which spells out every declaration nested in it
unparse(ast, i) ==
  [ j \in 1..(end_lineno(ast, i) - i + 1) |->
      LET n == ast[i + j - 1]
      IN  <<n.kind, n.name, n.up, n.body, n.doc>> ]

\* ast.get_docstring(node) or ""
get_docstring(ast, i) == ast[i].doc

\* RepositoryParser._generate_embedding
generate_embedding(code_snippet) ==
  IF Len(code_snippet) > 0 THEN <<"encode", code_snippet>> ELSE <<"zeros">>

(***************************************************************************)
(* Paths.  A path is its sequence of components.                           *)
(***************************************************************************)
RECURSIVE PathStr(_)
PathStr(p) ==
  IF Len(p) = 1 THEN p[1] ELSE p[1] \o "/" \o PathStr(Tail(p))

\* file_path.name
PathName(p) == p[Len(p)]

(***************************************************************************)
(* RepositoryParser._parse_python_file                                     *)
(***************************************************************************)
ClassId(name, path) == name

FunctionId(name, path) == name \o "_" \o PathName(path)

\* the parent looked up for a function: class_stack[-1] if class_stack else None
StackParent(class_stack) ==
  IF class_stack # <<>> THEN class_stack[Len(class_stack)] ELSE None

MetaRecord(ast, path, i, type, parent) ==
  [ type |-> type, name |-> ast[i].name, file_path |-> PathStr(path),
    parent |-> parent, start_line |-> lineno(ast, i),
    end_line |-> end_lineno(ast, i),
    docstring |-> get_docstring(ast, i), code |-> unparse(ast, i) ]

EmbeddingRow(ast, path, i, id, type) ==
  [ id |-> id, file_path |-> PathStr(path), start_line |-> lineno(ast, i),
    embedding |-> generate_embedding(unparse(ast, i)),
    type |-> type, name |-> ast[i].name, parent |-> None,
    end_line |-> end_lineno(ast, i),
    docstring |-> get_docstring(ast, i), code |-> unparse(ast, i) ]

\* ast.unparse(node) raises while the code_data record of node i is built:
\* the text of node i spells out the declaration that cannot be unparsed
UnparseRaises(ast, rz, i) ==
  rz.stage = "unparse" /\ rz.node # 0 /\ i \in Ancestors(ast, rz.node)

\* _generate_embedding raises while the embedding_data record of node i is
\* built, after the code_data record was appended
EncodeRaises(ast, rz, i) == rz.stage = "encode" /\ rz.node = i

\* code_data.append({...}) then embedding_data.append({...}) for node i;
\* an exception leaves what was appended before it
Emit(ast, path, rz, i, st, id, type, parent) ==
  IF UnparseRaises(ast, rz, i) THEN [st EXCEPT !.raised = TRUE]
  ELSE IF EncodeRaises(ast, rz, i) THEN
    [st EXCEPT !.raised = TRUE,
               !.code_data = Append(@, MetaRecord(ast, path, i, type, parent))]
  ELSE
    [st EXCEPT !.code_data = Append(@, MetaRecord(ast, path, i, type, parent)),
               !.embedding_data = Append(@, EmbeddingRow(ast, path, i, id, type))]

\* the body of the loop over ast.walk(tree) for one node
VisitNode(ast, path, rz, i, st) ==
  IF i = 0 THEN st
  ELSE IF ast[i].kind = "ClassDef" THEN
    Emit(ast, path, rz, i,
         [st EXCEPT !.class_stack = Append(@, ast[i].name)],
         ClassId(ast[i].name, path), "class", None)
  ELSE IF ast[i].kind = "FunctionDef" THEN
    LET parent == StackParent(st.class_stack)
        type == IF Truthy(parent) THEN "method" ELSE "function"
    IN  Emit(ast, path, rz, i, st, FunctionId(ast[i].name, path), type, parent)
  ELSE st

\* the loop over ast.walk(tree), left by the first exception
RECURSIVE VisitAll(_, _, _, _, _)
VisitAll(ast, path, rz, order, st) ==
  IF order = <<>> \/ st.raised THEN st
  ELSE VisitAll(ast, path, rz, Tail(order),
                VisitNode(ast, path, rz, Head(order), st))

\* appends the records of one file to the two accumulators; a file that
\* cannot be read or parsed raises before the loop and appends nothing; the
\* except clause prints the error and returns
parse_python_file(file, path, cd, ed) ==
  IF file.status # "ok" THEN [code_data |-> cd, embedding_data |-> ed]
  ELSE LET ast == file.ast
           st == VisitAll(ast, path, file.raises, walk(ast),
                          [class_stack |-> <<>>, code_data |-> cd,
                           embedding_data |-> ed, raised |-> FALSE])
       IN  [code_data |-> st.code_data, embedding_data |-> st.embedding_data]

(***************************************************************************)
(* State.                                                                  *)
(***************************************************************************)
VARIABLES
  repo,            \* the working tree: path index -> file
  rglob_order,     \* order in which repo_path.rglob("*.py") yields the paths
  code_data,       \* extract_code_structure: metadata accumulator
  embedding_data,  \* extract_code_structure: embedding accumulator
  parquet_exists,  \* embeddings.parquet is on disk
  parquet,         \* rows of embeddings.parquet
  store,           \* the Chroma collection: id -> [metadata, document]
  code_metadata,   \* rows of the DuckDB table code_metadata
  pc,              \* "idle", "extracted", "upserting", "done", "failed"
  changed_files,   \* argument of the running process_embeddings_async
  batch_size,      \* the batch_size process_embeddings_async is called with
  df_embeddings,   \* its selected rows
  tasks,           \* starts of the batches whose upsert has not run yet
  raised,          \* an upsert task of the run raised
  runs,            \* number of extractions started
  edit,            \* history: the change made to the tree since the last run
  run_edit,        \* history: the change that preceded the current run
  prev,            \* history: rows of the previous run and, while the tree is
                   \* unchanged, its arguments and the collection it left
  store0,          \* history: the collection when the upserts were dispatched
  upserted,        \* history: rows handed to collection.upsert by this run
  neighbours,      \* the collection's entries, nearest to the question first
  question,        \* argument of answer_question
  qa_pc,           \* "idle", "answered", "metadata_missing",
                   \* "collection_missing"
  results,         \* what collection.query returned
  context_str,     \* the context rendered by answer_question
  completion_calls, \* the calls of client.chat.completions.create
  fallback_calls,  \* the calls of _fetch_metadata_fallback
  collection_exists, \* chroma_client.get_collection finds the collection
  query_calls,     \* the calls of collection.query
  response         \* what the last process_repository request came to

pvars == << repo, rglob_order, code_data, embedding_data, parquet_exists,
            parquet, store, code_metadata, pc, changed_files, batch_size,
            df_embeddings, tasks, raised, runs, edit, run_edit,
            prev, store0, upserted >>

qvars == << neighbours, question, qa_pc, results, context_str,
            completion_calls, fallback_calls, collection_exists, query_calls >>

avars == << response >>

vars == << pvars, qvars, avars >>

(***************************************************************************)
(* The repositories tried.                                                 *)
(***************************************************************************)
Paths == << <<"repo", "a.py">>, <<"repo", "b.py">> >>

PathIdx == 1..Len(Paths)

RepoKinds == {"ClassDef", "FunctionDef"}

RepoAsts(n) ==
  UNION { { a \in { AstOf(m, k, [i \in 1..m |-> "A"], u) :
                      k \in [1..m -> RepoKinds], u \in [1..m -> 0..(m - 1)] } :
              WellNested(a) } : m \in 0..n }

RepoFiles(n) ==
  { MkFile("ok", a) : a \in RepoAsts(n) } \cup
  { MkFile("bad", <<>>), MkFile("absent", <<>>) }

RECURSIVE SumLen(_, _)
SumLen(r, i) == IF i = 0 THEN 0 ELSE Len(r[i].ast) + SumLen(r, i - 1)

Repos ==
  { r \in [PathIdx -> RepoFiles(MaxRepoNodes)] :
      SumLen(r, Len(Paths)) <= MaxRepoNodes }

Perms(S) ==
  { f \in [1..Cardinality(S) -> S] :
      \A i, j \in 1..Cardinality(S) : i # j => f[i] # f[j] }

NoEdit == [op |-> "none", path |-> 0, node |-> 0]

EmptyStore == [id \in {} |-> 0]

NotGiven == [given |-> FALSE, files |-> {}]

NoPrev ==
  [ valid |-> FALSE, rows |-> <<>>, store |-> EmptyStore,
    changed_files |-> NotGiven ]

EmptyContext == [literal |-> "", snippets |-> <<>>]

\* no process_repository request was made
NoResponse == [clone |-> "none", status |-> "none"]

\* no question is being answered and no request was made
QaIdle ==
  /\ neighbours = <<>>
  /\ question = ""
  /\ qa_pc = "idle"
  /\ results = <<>>
  /\ context_str = EmptyContext
  /\ completion_calls = <<>>
  /\ fallback_calls = 0
  /\ collection_exists = FALSE
  /\ query_calls = 0
  /\ response = NoResponse

\* a fresh RepositoryParser over the tree r, an empty collection
Constructed(r) ==
  /\ repo = r
  /\ code_data = <<>>
  /\ embedding_data = <<>>
  /\ parquet_exists = FALSE
  /\ parquet = <<>>
  /\ store = EmptyStore
  /\ code_metadata = <<>>
  /\ pc = "idle"
  /\ changed_files = NotGiven
  /\ df_embeddings = <<>>
  /\ tasks = {}
  /\ raised = FALSE
  /\ runs = 0
  /\ edit = NoEdit
  /\ run_edit = NoEdit
  /\ prev = NoPrev
  /\ store0 = EmptyStore
  /\ upserted = {}

\* the order of rglob matters between the files that are in the tree
Init ==
  /\ \E r \in Repos : Constructed(r)
  /\ rglob_order \in Perms(PathIdx)
  /\ (\E i \in PathIdx : repo[i].status = "absent") =>
       rglob_order = [i \in PathIdx |-> i]
  /\ batch_size \in 1..MaxBatchSize
  /\ QaIdle

(***************************************************************************)
(* RepositoryParser.extract_code_structure                                 *)
(***************************************************************************)
RECURSIVE ParseFiles(_, _, _)
ParseFiles(r, order, acc) ==
  IF order = <<>> THEN acc
  ELSE LET i == Head(order)
       IN  ParseFiles(r, Tail(order),
             IF r[i].status = "absent" THEN acc
             ELSE parse_python_file(r[i], Paths[i],
                                    acc.code_data, acc.embedding_data))

\* df_embeddings.to_parquet: the file is written only for a non-empty frame
to_parquet(old, rows) == IF rows # <<>> THEN rows ELSE old

\* the counts that extract_code_structure returns
Counts(cd, ed) == [metadata_count |-> Len(cd), embeddings_count |-> Len(ed)]

\* the body of extract_code_structure on the state of the parser
ExtractCodeStructureBody ==
  /\ pc \in {"idle", "done", "failed"}
  /\ runs < MaxRuns
  /\ LET res == ParseFiles(repo, rglob_order,
                           [code_data |-> <<>>, embedding_data |-> <<>>])
     IN  /\ code_data' = res.code_data
         /\ embedding_data' = res.embedding_data
         /\ parquet' = to_parquet(parquet, res.embedding_data)
         /\ parquet_exists' = (parquet_exists \/ res.embedding_data # <<>>)
  /\ pc' = "extracted"
  /\ runs' = runs + 1
  /\ prev' = IF edit = NoEdit
              THEN [ valid |-> (pc = "done"), rows |-> embedding_data,
                     store |-> store, changed_files |-> changed_files ]
              ELSE [ valid |-> (pc = "done"), rows |-> embedding_data,
                     store |-> EmptyStore, changed_files |-> NotGiven ]
  /\ run_edit' = edit
  /\ edit' = NoEdit
  /\ UNCHANGED << repo, rglob_order, store, code_metadata, changed_files,
                  batch_size, df_embeddings, tasks, raised, store0, upserted,
                  qvars >>

\* parser.extract_code_structure() called on its own
ExtractCodeStructure == ExtractCodeStructureBody /\ UNCHANGED avars

(***************************************************************************)
(* process_embeddings_async and upsert_batch_async                         *)
(***************************************************************************)
\* pd.read_parquet: the rows as written, the embedding lists as arrays
read_parquet(rows) ==
  [ i \in 1..Len(rows) |-> [rows[i] EXCEPT !.embedding = <<"ndarray", @>>] ]

\* the values tried for the changed_files argument: omitted (None) and the
\* stored path of one file
ChangedFilesInputs ==
  { NotGiven, [given |-> TRUE, files |-> {PathStr(Paths[1])}] }

\* `if changed_files:'
ChangedFilesTruthy(cf) == cf.given /\ cf.files # {}

InChanged(cf, row) == row.file_path \in cf.files

\* the selection when the changed_files filter is left out
SelectRowsUnfiltered(df, cf) == df

\* df_embeddings[df_embeddings["file_path"].isin(changed_files)]
SelectRows(df, cf) ==
  IF ChangedFilesTruthy(cf)
  THEN SelectSeq(df, LAMBDA row : InChanged(cf, row))
  ELSE df

\* range(0, len(df_embeddings), batch_size)
BatchStarts(n, bs) == { start \in 0..(n - 1) : start % bs = 0 }

Min(a, b) == IF a <= b THEN a ELSE b

\* the slice when its end is taken one row too early
BatchOneShort(df, start, bs) ==
  SubSeq(df, start + 1, Min(start + bs, Len(df)) - 1)

\* df_embeddings.iloc[start:end]
Batch(df, start, bs) == SubSeq(df, start + 1, Min(start + bs, Len(df)))

\* batch.drop(columns=["code", "docstring", "parent"]).to_dict("records")
Metadata(row) ==
  [ id |-> row.id, file_path |-> row.file_path, start_line |-> row.start_line,
    embedding |-> row.embedding, type |-> row.type, name |-> row.name,
    end_line |-> row.end_line ]

\* doc_text: the code, then the docstring and the parent when they are set
DocText(row) ==
  [ code |-> row.code,
    docstring |-> IF Truthy(row.docstring) THEN row.docstring ELSE "",
    parent |-> IF Truthy(row.parent) THEN row.parent ELSE "" ]

BatchIds(batch) == { batch[i].id : i \in 1..Len(batch) }

\* collection.upsert rejects a call that names an id twice
HasDuplicateIds(batch) == Cardinality(BatchIds(batch)) < Len(batch)

\* collection.upsert(ids, metadatas, documents): insert or replace by id
Upsert(st, batch) ==
  [ id \in (DOMAIN st) \cup BatchIds(batch) |->
      IF id \in BatchIds(batch)
      THEN LET row == batch[CHOOSE i \in 1..Len(batch) : batch[i].id = id]
           IN  [metadata |-> Metadata(row), document |-> DocText(row)]
      ELSE st[id] ]

ProcessEmbeddingsAsync(cf) ==
  /\ pc = "extracted"
  /\ changed_files' = cf
  /\ store0' = store
  /\ upserted' = {}
  /\ raised' = FALSE
  /\ IF ~parquet_exists \/ read_parquet(parquet) = <<>>
     THEN /\ pc' = "failed"
          /\ df_embeddings' = <<>>
          /\ tasks' = {}
     ELSE /\ df_embeddings' = SelectRows(read_parquet(parquet), cf)
          /\ tasks' = BatchStarts(Len(df_embeddings'), batch_size)
          /\ pc' = "upserting"
  /\ UNCHANGED << repo, rglob_order, code_data, embedding_data, parquet_exists,
                  parquet, store, code_metadata, batch_size, runs,
                  edit, run_edit, prev, qvars, avars >>

\* one dispatched upsert_batch_async task runs its collection.upsert
UpsertBatchAsync(start) ==
  /\ pc = "upserting"
  /\ start \in tasks
  /\ tasks' = tasks \ {start}
  /\ LET batch == Batch(df_embeddings, start, batch_size)
     IN  /\ upserted' = upserted \cup { batch[i] : i \in 1..Len(batch) }
         /\ IF HasDuplicateIds(batch)
            THEN /\ raised' = TRUE
                 /\ store' = store
            ELSE /\ raised' = raised
                 /\ store' = Upsert(store, batch)
  /\ UNCHANGED << repo, rglob_order, code_data, embedding_data, parquet_exists,
                  parquet, code_metadata, pc, changed_files, batch_size,
                  df_embeddings, runs, edit, run_edit, prev, store0,
                  qvars, avars >>

\* await asyncio.gather(*tasks) returns, or re-raises what a task raised
Gather ==
  /\ pc = "upserting"
  /\ tasks = {}
  /\ pc' = IF raised THEN "failed" ELSE "done"
  /\ UNCHANGED << repo, rglob_order, code_data, embedding_data, parquet_exists,
                  parquet, store, code_metadata, changed_files, batch_size,
                  df_embeddings, tasks, raised, runs, edit,
                  run_edit, prev, store0, upserted, qvars, avars >>

(***************************************************************************)
(* Changes that a pull brings to the working tree between two runs.        *)
(***************************************************************************)
CanChange ==
  /\ pc = "done"
  /\ runs < MaxRuns
  /\ edit = NoEdit

Frame ==
  UNCHANGED << rglob_order, code_data, embedding_data, parquet_exists,
               parquet, store, code_metadata, pc, changed_files, batch_size,
               df_embeddings, tasks, raised, runs, run_edit, prev,
               store0, upserted, qvars, avars >>

\* one line inside the body of function i of file p is changed
EditBody(p, i) ==
  /\ CanChange
  /\ repo[p].status = "ok"
  /\ i \in 1..Len(repo[p].ast)
  /\ repo[p].ast[i].kind = "FunctionDef"
  /\ repo[p].ast[i].body = 0
  /\ repo' = [repo EXCEPT ![p].ast[i].body = 1]
  /\ edit' = [op |-> "body", path |-> p, node |-> i]
  /\ Frame

\* file p is removed from the tree
DeleteFile(p) ==
  /\ CanChange
  /\ repo[p].status # "absent"
  /\ repo' = [repo EXCEPT ![p] = MkFile("absent", <<>>)]
  /\ edit' = [op |-> "delete", path |-> p, node |-> 0]
  /\ Frame

Next ==
  \/ ExtractCodeStructure
  \/ \E cf \in ChangedFilesInputs : ProcessEmbeddingsAsync(cf)
  \/ \E start \in 0..(MaxRepoNodes - 1) : UpsertBatchAsync(start)
  \/ Gather
  \/ \E p \in PathIdx, i \in 1..MaxRepoNodes : EditBody(p, i)
  \/ \E p \in PathIdx : DeleteFile(p)

Spec == Init /\ [][Next]_vars

(***************************************************************************)
(* The parser alone: _parse_python_file applied to one file drawn from     *)
(* every tree of at most MaxNodes declarations.                            *)
(***************************************************************************)
\* the tree that holds the file f alone
OneFile(f) == [i \in PathIdx |-> IF i = 1 THEN f ELSE MkFile("absent", <<>>)]

InitParse ==
  /\ \/ Constructed(OneFile(MkFile("bad", <<>>)))
     \/ \E n \in 0..MaxNodes :
          \E k \in [1..n -> Kinds], nm \in [1..n -> Names],
             u \in [1..n -> 0..(MaxNodes - 1)] :
            /\ WellNested(AstOf(n, k, nm, u))
            /\ Constructed(OneFile(MkFile("ok", AstOf(n, k, nm, u))))
  /\ rglob_order = [i \in PathIdx |-> i]
  /\ batch_size = 1
  /\ QaIdle

ParsePythonFile ==
  /\ pc = "idle"
  /\ LET res == parse_python_file(repo[1], Paths[1], <<>>, <<>>)
     IN  /\ code_data' = res.code_data
         /\ embedding_data' = res.embedding_data
  /\ pc' = "parsed"
  /\ UNCHANGED << repo, rglob_order, parquet_exists, parquet, store,
                  code_metadata, changed_files, batch_size, df_embeddings,
                  tasks, raised, runs, edit, run_edit, prev,
                  store0, upserted, qvars, avars >>

NextParse == ParsePythonFile

SpecParse == InitParse /\ [][NextParse]_vars

(***************************************************************************)
(* extract_code_structure over trees in which a file may make the loop of  *)
(* _parse_python_file raise after it has started to emit records.          *)
(***************************************************************************)
RaiseStages == {"unparse", "encode"}

ExtractFiles(n) ==
  RepoFiles(n) \cup
  UNION { { MkRaising(a, i, stage) : i \in 1..Len(a), stage \in RaiseStages } :
            a \in RepoAsts(n) }

InitExtract ==
  /\ \E f1, f2 \in ExtractFiles(MaxRepoNodes) :
       /\ Len(f1.ast) + Len(f2.ast) <= MaxRepoNodes
       /\ Constructed([i \in PathIdx |-> IF i = 1 THEN f1 ELSE f2])
  /\ rglob_order = [i \in PathIdx |-> i]
  /\ batch_size = 1
  /\ QaIdle

NextExtract == ExtractCodeStructure

SpecExtract == InitExtract /\ [][NextExtract]_vars

(***************************************************************************)
(* One extraction followed by process_embeddings_async, called with every  *)
(* kind of changed_files argument: omitted, a list of paths, an empty list.*)
(***************************************************************************)
EmptyList == [given |-> TRUE, files |-> {}]

IndexInputs == ChangedFilesInputs \cup {EmptyList}

FirstExtract == pc = "idle" /\ ExtractCodeStructure

NextIndex ==
  \/ FirstExtract
  \/ \E cf \in IndexInputs : ProcessEmbeddingsAsync(cf)
  \/ \E start \in 0..(MaxRepoNodes - 1) : UpsertBatchAsync(start)
  \/ Gather

SpecIndex == Init /\ [][NextIndex]_vars

(***************************************************************************)
(* The /process_repository/ handler.                                       *)
(***************************************************************************)
\* what clone_or_update_repo returns: [] for a repository that is up to
\* date, the list of changed files after a pull, None after a clone
CloneResults == {"up_to_date", "changed", "cloned"}

\* def extract_code_structure(self): the parameters after self
extract_params == <<>>

\* parser.extract_code_structure(changed_files): the arguments passed
extract_call_args == << "changed_files" >>

\* a call binds when it passes as many positional arguments as the function
\* has parameters (none has a default); otherwise it raises TypeError
Binds(params, args) == Len(args) = Len(params)

ProcessRepository(cr) ==
  /\ response = NoResponse
  /\ pc = "idle"
  /\ IF cr = "up_to_date"
     THEN /\ response' = [clone |-> cr, status |-> "up_to_date"]
          /\ UNCHANGED << pvars, qvars >>
     ELSE IF ~Binds(extract_params, extract_call_args)
     THEN /\ response' = [clone |-> cr, status |-> "TypeError"]
          /\ UNCHANGED << pvars, qvars >>
     ELSE /\ ExtractCodeStructureBody
          /\ response' = [clone |-> cr, status |-> "extracted",
                           counts |-> Counts(code_data', embedding_data')]

NextApi == \E cr \in CloneResults : ProcessRepository(cr)

SpecApi == InitExtract /\ [][NextApi]_vars

(***************************************************************************)
(* QAProcessor.answer_question over a collection whose entries are listed  *)
(* by increasing distance to the question.                                 *)
(***************************************************************************)
MaxStored == 4         \* entries of the collection queried

n_results == 3

NoContextFound == "No relevant context found."

Distances == 0..1

\* entry i of the collection: its metadata and its document, either of which
\* may be None
EntryMetadata(i, ok) ==
  [ none |-> ~ok, id |-> i,
    file_path |-> "file" \o ToString(i), name |-> "name" \o ToString(i),
    type |-> "function" ]

EntryDocument(i, ok) == [ none |-> ~ok, id |-> i, text |-> "code" \o ToString(i) ]

\* the collection of n entries at distances d, m[i] and t[i] telling whether
\* entry i has metadata and a document
Collection(n, d, m, t) ==
  [ i \in 1..n |->
      [ id |-> i, distance |-> d[i],
        metadata |-> EntryMetadata(i, m[i]),
        document |-> EntryDocument(i, t[i]) ] ]

NearestFirst(n, d) == \A i \in 1..n : i < n => d[i] <= d[i + 1]

Questions == {"foo", "what does foo do"}

\* the repository asked about: one file that declares one class
AskedRepo == OneFile(MkFile("ok", << MkNode("ClassDef", "A", 0, 0, "") >>))

\* the questions come to a repository that was never extracted, or to one
\* whose extraction has written embeddings.parquet; the collection is kept
\* by the persistent client and may be there in either case
InitQA ==
  /\ \/ Constructed(AskedRepo)
     \/ /\ repo = AskedRepo
        /\ LET res == ParseFiles(AskedRepo, [i \in PathIdx |-> i],
                                 [code_data |-> <<>>, embedding_data |-> <<>>])
           IN  /\ code_data = res.code_data
               /\ embedding_data = res.embedding_data
               /\ parquet = to_parquet(<<>>, res.embedding_data)
        /\ parquet_exists = TRUE
        /\ pc = "extracted"
        /\ runs = 1
        /\ store = EmptyStore
        /\ code_metadata = <<>>
        /\ changed_files = NotGiven
        /\ df_embeddings = <<>>
        /\ tasks = {}
        /\ raised = FALSE
        /\ edit = NoEdit
        /\ run_edit = NoEdit
        /\ prev = NoPrev
        /\ store0 = EmptyStore
        /\ upserted = {}
  /\ rglob_order = [i \in PathIdx |-> i]
  /\ batch_size = 1
  /\ \E n \in 0..MaxStored :
       \E d \in [1..n -> Distances], m \in [1..n -> BOOLEAN],
          t \in [1..n -> BOOLEAN] :
         /\ NearestFirst(n, d)
         /\ neighbours = Collection(n, d, m, t)
  /\ collection_exists \in BOOLEAN
  /\ ~collection_exists => neighbours = <<>>
  /\ question = ""
  /\ qa_pc = "idle"
  /\ results = <<>>
  /\ context_str = EmptyContext
  /\ completion_calls = <<>>
  /\ fallback_calls = 0
  /\ query_calls = 0
  /\ response = NoResponse

\* the query when it asks for 5 results instead of n
QueryFive(coll, n) == SubSeq(coll, 1, Min(5, Len(coll)))

\* collection.query(query_embeddings=[...], n_results=n): the n nearest
Query(coll, n) == SubSeq(coll, 1, Min(n, Len(coll)))

\* [meta for sublist in metadata_list for meta in sublist if meta]
MetadataFlat(res) ==
  SelectSeq([i \in 1..Len(res) |-> res[i].metadata], LAMBDA m : ~m.none)

\* [doc for sublist in documents for doc in sublist if doc]
DocumentsFlat(res) ==
  SelectSeq([i \in 1..Len(res) |-> res[i].document], LAMBDA d : ~d.none)

\* zip(metadata_flat, documents_flat) and the snippet built for each pair
Snippets(metas, docs) ==
  [ i \in 1..Min(Len(metas), Len(docs)) |->
      [ file |-> metas[i].file_path, name |-> metas[i].name,
        type |-> metas[i].type, code |-> docs[i].text,
        meta_id |-> metas[i].id, doc_id |-> docs[i].id ] ]

\* the rendering when the branch for an empty retrieval is left out
RenderContextJoinOnly(metas, docs) ==
  [literal |-> "", snippets |-> Snippets(metas, docs)]

\* the if/else that builds context_str
RenderContext(metas, docs) ==
  IF metas # <<>> /\ docs # <<>>
  THEN [literal |-> "", snippets |-> Snippets(metas, docs)]
  ELSE [literal |-> NoContextFound, snippets |-> <<>>]

AnswerQuestion(q) ==
  /\ qa_pc = "idle"
  /\ question' = q
  /\ LET res == Query(neighbours, n_results)
         ctx == RenderContext(MetadataFlat(res), DocumentsFlat(res))
     IN  /\ results' = res
         /\ context_str' = ctx
         /\ completion_calls' =
              Append(completion_calls, [context |-> ctx, question |-> q])
  /\ query_calls' = query_calls + 1
  /\ fallback_calls' = fallback_calls
  /\ qa_pc' = "answered"
  /\ UNCHANGED << pvars, neighbours, collection_exists, avars >>

\* validate_repo_metadata when the existence of the file is not checked
validate_repo_metadata_unchecked(exists) == TRUE

\* validate_repo_metadata: returns the path (TRUE) when embeddings.parquet
\* exists, raises HTTPException(500) (FALSE) when it does not
validate_repo_metadata(exists) == exists

\* the /ask_question/ handler: the metadata check, the lookup of the
\* collection, then QAProcessor.answer_question
AskQuestion(q) ==
  /\ qa_pc = "idle"
  /\ IF ~validate_repo_metadata(parquet_exists)
     THEN /\ qa_pc' = "metadata_missing"
          /\ UNCHANGED << pvars, neighbours, question, results, context_str,
                          completion_calls, fallback_calls, collection_exists,
                          query_calls, avars >>
     ELSE IF ~collection_exists
     THEN /\ qa_pc' = "collection_missing"
          /\ UNCHANGED << pvars, neighbours, question, results, context_str,
                          completion_calls, fallback_calls, collection_exists,
                          query_calls, avars >>
     ELSE AnswerQuestion(q)

NextQA == \E q \in Questions : AskQuestion(q)

SpecQA == InitQA /\ [][NextQA]_vars

(***************************************************************************)
(* Properties.                                                             *)
(***************************************************************************)
RowIds(rows) == { rows[i].id : i \in 1..Len(rows) }

RowsOfFile(rows, fp) == SelectSeq(rows, LAMBDA row : row.file_path = fp)

\* C1: within one indexing run no two rows of the extracted embedding batch
\* share an id, also when two files declare a class of the same name or one
\* file declares two functions of the same name.
C1_UniqueIds ==
  pc = "extracted" =>
    \A i, j \in 1..Len(embedding_data) :
      i # j => embedding_data[i].id # embedding_data[j].id

\* C2: the id depends on the content: re-extracting after a change of one
\* line in one function's body gives that function another id, and every
\* other artifact of the file keeps its id.
C2_IdFollowsContent ==
  (pc = "extracted" /\ run_edit.op = "body") =>
    LET fp == PathStr(Paths[run_edit.path])
        old == RowsOfFile(prev.rows, fp)
        new == RowsOfFile(embedding_data, fp)
    IN  /\ Len(new) = Len(old)
        /\ \A k \in 1..Len(new) :
             IF new[k].start_line = run_edit.node
             THEN new[k].id # old[k].id
             ELSE new[k].id = old[k].id

\* C3: extraction followed by indexing, run again with the same arguments on
\* an unchanged repository, gives the same ids and leaves the collection as
\* the first run left it, whatever the order in which the batches are upserted.
C3_RerunIdempotent ==
  ( /\ pc = "done"
    /\ prev.valid
    /\ run_edit = NoEdit
    /\ prev.changed_files = changed_files ) =>
    /\ RowIds(embedding_data) = RowIds(prev.rows)
    /\ store = prev.store

\* C4: in the metadata records of a parsed file, a function defined in a
\* class body is a method whose parent is that class, and every class and
\* every module-level function has parent None, a module-level function
\* being of type function, whatever the order of the declarations.
C4_ParentAndType ==
  (pc = "parsed" /\ repo[1].status = "ok") =>
    \A k \in 1..Len(code_data) :
      LET r == code_data[k]
          ast == repo[1].ast
          n == ast[r.start_line]
      IN  /\ n.kind = "ClassDef" => r.parent = None
          /\ (n.kind = "FunctionDef" /\ n.up = 0) =>
               (r.type = "function" /\ r.parent = None)
          /\ (n.kind = "FunctionDef" /\ n.up # 0
                /\ ast[n.up].kind = "ClassDef") =>
               (r.type = "method" /\ r.parent = ast[n.up].name)

\* C5: after an indexing run that completes without error the ids of the
\* collection are exactly the ids of the table code_metadata.
C5_StoresAgree ==
  pc = "done" =>
    DOMAIN store = { code_metadata[i].id : i \in 1..Len(code_metadata) }

\* the rows of a run that belong to the files the run re-indexes
Reindexed(rows, cf) ==
  IF ChangedFilesTruthy(cf)
  THEN SelectSeq(rows, LAMBDA row : InChanged(cf, row))
  ELSE rows

\* C6: after a run, the collection holds no id that the previous run produced
\* for a re-indexed file and that the current run does not produce.
C6_StaleRemoved ==
  (pc = "done" /\ prev.valid) =>
    \A id \in RowIds(Reindexed(prev.rows, changed_files)) :
      id \notin RowIds(embedding_data) => id \notin DOMAIN store

\* the rows of embeddings.parquet whose file_path is in changed_files
RowsInChangedFiles ==
  { row \in { read_parquet(parquet)[i] : i \in 1..Len(parquet) } :
      row.file_path \in changed_files.files }

\* C7: with a non-empty changed_files, the rows upserted are exactly the rows
\* of embeddings.parquet whose file_path is in changed_files, and an entry of
\* the collection whose id is the id of none of these rows is left as it was.
C7_OnlyChangedFiles ==
  (pc \in {"upserting", "done", "failed"} /\ ChangedFilesTruthy(changed_files)) =>
    /\ upserted \subseteq RowsInChangedFiles
    /\ (tasks = {} /\ parquet_exists) => upserted = RowsInChangedFiles
    /\ \A id \in (DOMAIN store0) \cup (DOMAIN store) :
         id \notin { row.id : row \in RowsInChangedFiles } =>
           /\ id \in DOMAIN store0
           /\ id \in DOMAIN store
           /\ store[id] = store0[id]

\* C7 happens: a run restricted to one file rewrote an entry of that file
\* while the collection held an entry of another file.
C7_Witness ==
  /\ pc = "done"
  /\ ChangedFilesTruthy(changed_files)
  /\ upserted # {}
  /\ store # store0
  /\ \E id \in DOMAIN store0 :
       id \notin { row.id : row \in RowsInChangedFiles }

\* C8: while answering a question, the keyword fallback search is run if
\* and only if the vector query returned no result.
C8_FallbackIffEmpty ==
  qa_pc = "answered" => (fallback_calls = 1 <=> results = <<>>)

\* C9: when retrieval yields nothing, the context is exactly the literal
\* "No relevant context found." and the completion is invoked once, with
\* that context and the question.
C9_EmptyRetrieval ==
  (qa_pc = "answered" /\ results = <<>>) =>
    /\ context_str = [literal |-> "No relevant context found.", snippets |-> <<>>]
    /\ completion_calls = << [context |-> context_str, question |-> question] >>

\* C9 happens: a question was answered over a collection without entries.
C9_Witness ==
  /\ qa_pc = "answered"
  /\ neighbours = <<>>
  /\ results = <<>>
  /\ Len(completion_calls) = 1

\* position of the entry with this id in the answer of the store
PosInResults(id) == CHOOSE k \in 1..Len(results) : results[k].id = id

\* C10: the rendered context lists at most 3 results, none twice, in the
\* order in which the store returned them, hence by non-decreasing distance.
C10_OrderedContext ==
  qa_pc = "answered" =>
    LET sn == context_str.snippets
    IN  /\ Len(sn) <= 3
        /\ \A i \in 1..Len(sn) :
             /\ \E k \in 1..Len(results) : results[k].id = sn[i].meta_id
             /\ \E k \in 1..Len(results) : results[k].id = sn[i].doc_id
        /\ \A i, j \in 1..Len(sn) :
             i < j =>
               /\ PosInResults(sn[i].meta_id) < PosInResults(sn[j].meta_id)
               /\ PosInResults(sn[i].doc_id) < PosInResults(sn[j].doc_id)
               /\ results[PosInResults(sn[i].meta_id)].distance
                    <= results[PosInResults(sn[j].meta_id)].distance
               /\ results[PosInResults(sn[i].doc_id)].distance
                    <= results[PosInResults(sn[j].doc_id)].distance

\* C10 happens: the collection holds more than 3 entries, two of the three
\* nearest are at the same distance, and all three are rendered.
C10_Witness ==
  /\ qa_pc = "answered"
  /\ Len(neighbours) > 3
  /\ Len(context_str.snippets) = 3
  /\ \E i \in 1..2 : results[i].distance = results[i + 1].distance
  /\ results[1].distance < results[3].distance

\* _parse_python_file raised while it handled file p
ParseRaised(p) == repo[p].status = "bad" \/ repo[p].raises.node # 0

\* C11: a file whose parse raises at any point (on reading, in ast.parse or
\* later while a record is emitted) leaves no record in code_data or
\* embedding_data, and every other file of the run is still processed.
C11_FailedFileSkipped ==
  pc = "extracted" =>
    \A p \in PathIdx :
      LET fp == PathStr(Paths[p])
      IN  IF ParseRaised(p)
          THEN /\ RowsOfFile(code_data, fp) = <<>>
               /\ RowsOfFile(embedding_data, fp) = <<>>
          ELSE \A i \in 1..Len(repo[p].ast) :
                 /\ \E k \in 1..Len(code_data) :
                      code_data[k].file_path = fp /\ code_data[k].start_line = i
                 /\ \E k \in 1..Len(embedding_data) :
                      /\ embedding_data[k].file_path = fp
                      /\ embedding_data[k].start_line = i

\* the rows of the batches dispatched by the run, with the batch of each
DispatchedWrites ==
  UNION { { [start |-> start, row |-> Batch(df_embeddings, start, batch_size)[i]] :
              i \in 1..Len(Batch(df_embeddings, start, batch_size)) } :
            start \in BatchStarts(Len(df_embeddings), batch_size) }

\* C12: two concurrently dispatched batches that write the same id write the
\* same metadata and the same document, so that the collection they leave
\* does not depend on the order in which they complete.
C12_SameIdSameWrite ==
  pc = "upserting" =>
    \A w1, w2 \in DispatchedWrites :
      (w1.start # w2.start /\ w1.row.id = w2.row.id) =>
        /\ Metadata(w1.row) = Metadata(w2.row)
        /\ DocText(w1.row) = DocText(w2.row)

\* C13: a question asked while embeddings.parquet does not exist is answered
\* by an error: ask_question raises before any vector query is made and
\* before the completion is invoked.
C13_MissingMetadataRaises ==
  (qa_pc # "idle" /\ ~parquet_exists) =>
    /\ qa_pc = "metadata_missing"
    /\ query_calls = 0
    /\ results = <<>>
    /\ completion_calls = <<>>

\* the question was refused although the collection holds entries that a
\* query would have returned
C13_Witness ==
  /\ qa_pc = "metadata_missing"
  /\ ~parquet_exists
  /\ collection_exists
  /\ neighbours # <<>>
  /\ query_calls = 0
  /\ completion_calls = <<>>

\* C14: every process_repository request that reaches the indexing step (a
\* fresh clone, or an update with changed files) completes its call of
\* extract_code_structure and has the counts, also when files fail to parse;
\* it does not end in an error.
C14_ExtractionCompletes ==
  response.clone \in {"changed", "cloned"} =>
    /\ response.status = "extracted"
    /\ pc = "extracted"

\* C15: the records of a file are appended in source order: a declaration
\* with an earlier start line comes before one with a later start line, in
\* code_data and in embedding_data.
C15_SourceOrder ==
  pc = "parsed" =>
    /\ \A k \in 1..(Len(code_data) - 1) :
         code_data[k].start_line < code_data[k + 1].start_line
    /\ \A k \in 1..(Len(embedding_data) - 1) :
         embedding_data[k].start_line < embedding_data[k + 1].start_line

\* the records of rows that stand for the declaration at line i
RecordsOf(rows, i) == { k \in 1..Len(rows) : rows[k].start_line = i }

\* C16: parsing a file emits exactly one record for each class and for each
\* function or method declaration, at any nesting depth and for def and
\* async def alike: none is missed and none is emitted twice.
C16_OneRecordPerDeclaration ==
  (pc = "parsed" /\ repo[1].status = "ok") =>
    \A i \in 1..Len(repo[1].ast) :
      /\ Cardinality(RecordsOf(code_data, i)) = 1
      /\ Cardinality(RecordsOf(embedding_data, i)) = 1

\* the fields that a persisted row shares with a metadata record
SharedFields(r) ==
  [ type |-> r.type, name |-> r.name, file_path |-> r.file_path,
    parent |-> r.parent, start_line |-> r.start_line, end_line |-> r.end_line,
    docstring |-> r.docstring, code |-> r.code ]

\* C17: each row written to embeddings.parquet and read back has the type,
\* name, file_path, parent, start_line, end_line, docstring and code of the
\* code_data record of the same declaration, the parent of a method included.
C17_PersistedMatchesMetadata ==
  (pc = "extracted" /\ embedding_data # <<>>) =>
    LET rows == read_parquet(parquet)
    IN  /\ Len(rows) = Len(code_data)
        /\ \A k \in 1..Len(rows) :
             SharedFields(rows[k]) = SharedFields(code_data[k])

\* C18: whenever changed_files is provided, processing is restricted to the
\* rows whose file_path is in it, also when it is empty (then no row is
\* upserted); all rows are processed only when it is omitted.
C18_ProvidedRestricts ==
  (pc \in {"upserting", "done", "failed"} /\ changed_files.given) =>
    /\ \A k \in 1..Len(df_embeddings) :
         InChanged(changed_files, df_embeddings[k])
    /\ \A row \in upserted : InChanged(changed_files, row)

\* the batches that hold row k of the selected rows
BatchesOf(k) ==
  { start \in BatchStarts(Len(df_embeddings), batch_size) :
      LET batch == Batch(df_embeddings, start, batch_size)
      IN  /\ start < k
          /\ k <= start + Len(batch)
          /\ batch[k - start] = df_embeddings[k] }

\* C19: for every number of selected rows and every batch_size >= 1 each
\* batch holds between 1 and batch_size rows and every selected row is in
\* exactly one batch; when the function returns without error every batch
\* was upserted, so the collection holds an entry for every selected id.
C19_BatchesPartition ==
  pc \in {"upserting", "done"} =>
    LET starts == BatchStarts(Len(df_embeddings), batch_size)
    IN  /\ \A start \in starts :
             Len(Batch(df_embeddings, start, batch_size)) \in 1..batch_size
        /\ \A k \in 1..Len(df_embeddings) : Cardinality(BatchesOf(k)) = 1
        /\ tasks \subseteq starts
        /\ pc = "done" =>
             /\ tasks = {}
             /\ upserted = { df_embeddings[k] : k \in 1..Len(df_embeddings) }
             /\ \A k \in 1..Len(df_embeddings) :
                  df_embeddings[k].id \in DOMAIN store

\* a run that dispatched more than one batch has returned without error
C19_Witness ==
  /\ pc = "done"
  /\ Cardinality(BatchStarts(Len(df_embeddings), batch_size)) > 1
  /\ \A k \in 1..Len(df_embeddings) : df_embeddings[k].id \in DOMAIN store

\* C20: after every call of extract_code_structure embeddings.parquet holds
\* exactly the artifacts that call extracted, no row of an earlier run
\* survives (also when the call extracts nothing), and a following
\* process_embeddings_async upserts only artifacts of the latest extraction.
C20_ParquetIsLatest ==
  /\ pc = "extracted" =>
       (IF parquet_exists THEN parquet ELSE <<>>) = embedding_data
  /\ pc \in {"upserting", "done", "failed"} =>
       \A row \in upserted :
         \E k \in 1..Len(embedding_data) :
           read_parquet(embedding_data)[k] = row

\* the declaration a record stands for
DeclarationOf(r) == [file_path |-> r.file_path, start_line |-> r.start_line]

\* C21: after every call of extract_code_structure, whatever files fail and
\* at whatever point, code_data and embedding_data have the same length (the
\* two counts returned are equal) and their i-th records describe the same
\* declaration.
C21_AccumulatorsAligned ==
  pc = "extracted" =>
    /\ Len(code_data) = Len(embedding_data)
    /\ Counts(code_data, embedding_data).metadata_count =
         Counts(code_data, embedding_data).embeddings_count
    /\ \A k \in 1..Min(Len(code_data), Len(embedding_data)) :
         DeclarationOf(code_data[k]) = DeclarationOf(embedding_data[k])

\* C22: every rendered snippet pairs the metadata and the document of one and
\* the same query result, also when some results have no metadata or no
\* document: its File, Name and Type lines and its Code text come from one
\* entry, and a result is rendered whole or omitted whole.
C22_SnippetFromOneResult ==
  qa_pc = "answered" =>
    /\ \A k \in 1..Len(context_str.snippets) :
         context_str.snippets[k].meta_id = context_str.snippets[k].doc_id
    /\ \A i \in 1..Len(results) :
         (results[i].metadata.none \/ results[i].document.none) =>
           \A k \in 1..Len(context_str.snippets) :
             /\ context_str.snippets[k].meta_id # results[i].id
             /\ context_str.snippets[k].doc_id # results[i].id

=============================================================================
